---- MODULE Spec2Model ----
(***************************************************************************)
(* Model of the configurable RAG framework: RAGOrchestrator.setup / ask,   *)
(* ComponentFactory, build_retriever / load_documents, the conversational  *)
(* chain with its process-wide session store, and the interactive loop of  *)
(* main.py.  External services (embedding, LLM, reranker, loaders, FAISS)  *)
(* are opaque: each call either completes or raises, chosen by failAt.     *)
(***************************************************************************)
EXTENDS Integers, Sequences, FiniteSets, TLC

\* ---------------------------------------------------------------- bounds
MaxSetups == 2
MaxTurns == 2
MaxLines == 3

\* ------------------------------------------------------------- constants
None == "None"

\* config.py: EmbeddingConfig.provider Literal
Providers == {"google", "huggingface"}

\* components.py: EMBEDDING_CLASSES keys
EMBEDDING_CLASSES == {"google", "huggingface"}

\* orchestrator.py default session id and main.py session id
SessionIds == {"default_session", "user_cli_session"}

\* main.py: session_id = "user_cli_session"
session_id == "user_cli_session"

\* Steps of setup() that call into an external library or service and may
\* raise there.  "none" means every external call completes.
FailPoints ==
  {"none", "create_embeddings", "create_llm", "create_text_splitter",
   "CohereRerank", "loader", "split_documents", "from_documents",
   "save_local", "load_local", "BM25Retriever", "read_template"}

\* Steps of one turn that may raise.
TurnFailPoints == {"none", "retrieve", "llm"}

Answers == {"a1"}

\* --------------------------------------------------------------- strings
\* Input lines are sequences of characters so that lower() and strip()
\* are computed, not assumed.
Whitespace == {" ", "\t"}

Lower(c) ==
  CASE c = "E" -> "e" [] c = "X" -> "x" [] c = "I" -> "i" [] c = "T" -> "t"
    [] c = "Q" -> "q" [] c = "U" -> "u" [] c = "H" -> "h"
    [] OTHER -> c

lower(s) == [i \in 1..Len(s) |-> Lower(s[i])]

RECURSIVE lstrip(_)
lstrip(s) == IF s # <<>> /\ Head(s) \in Whitespace THEN lstrip(Tail(s)) ELSE s

RECURSIVE rstrip(_)
rstrip(s) ==
  IF s # <<>> /\ s[Len(s)] \in Whitespace
  THEN rstrip(SubSeq(s, 1, Len(s) - 1)) ELSE s

strip(s) == rstrip(lstrip(s))

EXIT == <<"e", "x", "i", "t">>
QUIT == <<"q", "u", "i", "t">>

\* Questions used through the API
Questions == { <<"h", "i">>, <<"w", "h", "y">> }

\* Lines the user may type at the prompt
Lines ==
  { <<>>, <<" ", "\t">>, EXIT, <<"E", "x", "I", "T">>, <<"Q", "U", "I", "T">>,
    <<" ", "e", "x", "i", "t">>, <<"h", "i">> }

\* ----------------------------------------------------------------- state
VARIABLES
  config,      \* AppConfig of the orchestrator (validated, fixed)
  env,         \* environment: credential, document directory, web pages
  disk,        \* the vector store directory at config.vector_store.path
  embedCalls,  \* number of FAISS.from_documents calls (chunk embeddings)
  rag_chain,   \* RAGOrchestrator.rag_chain
  store,       \* chain.py: store, session id -> message list
  setups,      \* number of setup() calls made
  everSetup,   \* some setup() call has returned normally
  lastSetup,   \* record of the last setup() call
  lastAsk,     \* record of the last ask() call
  turnLog,     \* successful conversational turns, in order
  retrLog,     \* first retrieval of each question through the current chain
  pc,          \* main(): "start", "loop" or "done"
  lastLoop     \* main(): what the loop did with the last line read

vars == <<config, env, disk, embedCalls, rag_chain, store, setups, everSetup,
          lastSetup, lastAsk, turnLog, retrLog, pc, lastLoop>>

NoIndex == [exists |-> FALSE, complete |-> FALSE, gen |-> 0]

\* Prefix of steps that completed when the step failAt raised
RECURSIVE Completed(_, _)
Completed(steps, failAt) ==
  IF steps = <<>> \/ Head(steps) = failAt THEN <<>>
  ELSE <<Head(steps)>> \o Completed(Tail(steps), failAt)

Range(s) == {s[i] : i \in 1..Len(s)}

Raised(steps, failAt) == failAt \in Range(steps)

\* ------------------------------------------------------ ComponentFactory
\* create_embeddings: unsupported provider fails before the class is built
create_embeddings(cfg, failAt) ==
  IF cfg.provider \notin EMBEDDING_CLASSES THEN "UnsupportedProvider"
  ELSE IF failAt = "create_embeddings" THEN "ExternalError"
  ELSE "none"

create_llm(cfg, failAt) ==
  IF failAt = "create_llm" THEN "ExternalError" ELSE "none"

create_text_splitter(cfg, failAt) ==
  IF failAt = "create_text_splitter" THEN "ExternalError" ELSE "none"

\* Variant: the credential is not checked before the reranker is built
create_reranker_NoKeyCheck(cfg, e, failAt) ==
  IF ~cfg.reranker_enable THEN [err |-> "none", reranker |-> None]
  ELSE IF failAt = "CohereRerank" THEN [err |-> "ExternalError", reranker |-> None]
  ELSE [err |-> "none", reranker |-> "CohereRerank"]

\* create_reranker: None when disabled, error when the key is absent
create_reranker(cfg, e, failAt) ==
  IF ~cfg.reranker_enable THEN [err |-> "none", reranker |-> None]
  ELSE IF ~e.cohere_key THEN [err |-> "MissingCredential", reranker |-> None]
  ELSE IF failAt = "CohereRerank" THEN [err |-> "ExternalError", reranker |-> None]
  ELSE [err |-> "none", reranker |-> "CohereRerank"]

\* ---------------------------------------------------------- retriever.py
\* Variant: an empty document list is returned instead of raising
load_documents_NoRaise(cfg, e, failAt) ==
  LET useLocal == cfg.doc_path # None /\ e.doc_dir_exists
      useWeb   == cfg.doc_urls > 0
      steps    == (IF useLocal THEN <<"DirectoryLoader">> ELSE <<>>) \o
                  (IF useWeb THEN <<"WebBaseLoader">> ELSE <<>>)
      n        == (IF useLocal THEN e.n_local ELSE 0) +
                  (IF useWeb THEN cfg.doc_urls ELSE 0)
  IN IF failAt = "loader" /\ steps # <<>>
     THEN [err |-> "ExternalError", docs |-> 0, ops |-> <<>>]
     ELSE [err |-> "none", docs |-> n, ops |-> steps]

\* load_documents: local directory (if configured and present) then URLs
load_documents(cfg, e, failAt) ==
  LET useLocal == cfg.doc_path # None /\ e.doc_dir_exists
      useWeb   == cfg.doc_urls > 0
      steps    == (IF useLocal THEN <<"DirectoryLoader">> ELSE <<>>) \o
                  (IF useWeb THEN <<"WebBaseLoader">> ELSE <<>>)
      n        == (IF useLocal THEN e.n_local ELSE 0) +
                  (IF useWeb THEN cfg.doc_urls ELSE 0)
  IN IF failAt = "loader" /\ steps # <<>>
     THEN [err |-> "ExternalError", docs |-> 0, ops |-> <<>>]
     ELSE IF n = 0
     THEN [err |-> "NoDocumentsFound", docs |-> 0, ops |-> steps]
     ELSE [err |-> "none", docs |-> n, ops |-> steps]

\* Variant: the existing store is never deleted
ShouldDelete_Never(force_recreate, d) == FALSE

\* line 66: delete the existing store only under --setup
ShouldDelete(force_recreate, d) == force_recreate /\ d.exists

\* line 70: build when nothing is at the path
MustBuild(d) == ~d.exists

\* lines 85-96: base retriever of a freshly built store
BaseRetrieverBuilt(cfg, gen) ==
  IF cfg.enable_hybrid_search
  THEN [kind |-> "ensemble", bm25 |-> TRUE, gen |-> gen]
  ELSE [kind |-> "faiss", bm25 |-> FALSE, gen |-> gen]

\* lines 100-103: base retriever of a loaded store
BaseRetrieverLoaded(cfg, gen) ==
  [kind |-> "faiss", bm25 |-> FALSE, gen |-> gen]

\* lines 107-113: wrap with the reranker when there is one
ApplyReranker(reranker, base) ==
  IF reranker # None
  THEN [base |-> base, compressor |-> reranker]
  ELSE [base |-> base, compressor |-> None]

NoBase == [kind |-> None, bm25 |-> FALSE, gen |-> 0]

NoRetriever == [base |-> NoBase, compressor |-> None]

\* self.rag_chain = None
NoChain == [mode |-> None, retriever |-> NoRetriever]

build_retriever(cfg, e, d, calls, reranker, force_recreate, failAt) ==
  LET del   == ShouldDelete(force_recreate, d)
      d1    == IF del THEN NoIndex ELSE d
      ops1  == IF del THEN <<"rmtree">> ELSE <<>>
  IN
  IF MustBuild(d1) THEN
    LET ld == load_documents(cfg, e, failAt)
        steps == <<"split_documents", "from_documents", "save_local">> \o
                 (IF cfg.enable_hybrid_search THEN <<"BM25Retriever">> ELSE <<>>)
        done  == Completed(steps, failAt)
        embedded == "from_documents" \in Range(done)
        calls1 == IF embedded THEN calls + 1 ELSE calls
        saved == "save_local" \in Range(done)
        d2 == IF saved THEN [exists |-> TRUE, complete |-> TRUE, gen |-> calls1]
              ELSE IF failAt = "save_local" /\ embedded
              THEN [exists |-> TRUE, complete |-> FALSE, gen |-> calls1]
              ELSE d1
    IN IF ld.err # "none"
       THEN [err |-> ld.err, retriever |-> NoRetriever, disk |-> d1,
             calls |-> calls, docs |-> IF ld.err = "NoDocumentsFound" THEN 0 ELSE -1,
             ops |-> ops1 \o <<"load_documents">> \o ld.ops]
       ELSE IF Raised(steps, failAt)
       THEN [err |-> "ExternalError", retriever |-> NoRetriever, disk |-> d2,
             calls |-> calls1, docs |-> ld.docs,
             ops |-> ops1 \o <<"load_documents">> \o ld.ops \o done]
       ELSE [err |-> "none",
             retriever |-> ApplyReranker(reranker, BaseRetrieverBuilt(cfg, calls1)),
             disk |-> d2, calls |-> calls1, docs |-> ld.docs,
             ops |-> ops1 \o <<"load_documents">> \o ld.ops \o done]
  ELSE
    IF failAt = "load_local" \/ ~d1.complete
    THEN [err |-> "ExternalError", retriever |-> NoRetriever, disk |-> d1,
          calls |-> calls, docs |-> -1, ops |-> ops1]
    ELSE [err |-> "none",
          retriever |-> ApplyReranker(reranker, BaseRetrieverLoaded(cfg, d1.gen)),
          disk |-> d1, calls |-> calls, docs |-> -1,
          ops |-> ops1 \o <<"load_local">>]

\* -------------------------------------------------------------- chain.py
\* build_rag_chain: the chain kind follows memory.enable; reading the
\* prompt template file may fail
build_rag_chain(retriever, cfg, failAt) ==
  IF failAt = "read_template" THEN [err |-> "ExternalError", chain |-> NoChain]
  ELSE [err |-> "none",
        chain |-> [mode |-> IF cfg.memory_enable THEN "conversational"
                            ELSE "standard",
                   retriever |-> retriever]]

\* -------------------------------------------------------- orchestrator.py
\* Variant: the existing store is deleted before the components are built
setup_DeleteFirst(cfg, e, d, calls, chain, force_recreate, failAt) ==
  LET d0 == IF ShouldDelete(force_recreate, d) THEN NoIndex ELSE d
      fail(err, ops) ==
        [err |-> err, disk |-> d0, calls |-> calls, rag_chain |-> chain,
         docs |-> -1, ops |-> ops]
      e1 == create_embeddings(cfg, failAt)
      e2 == create_llm(cfg, failAt)
      e3 == create_text_splitter(cfg, failAt)
      rr == create_reranker(cfg, e, failAt)
      br == build_retriever(cfg, e, d, calls, rr.reranker, force_recreate, failAt)
      ch == build_rag_chain(br.retriever, cfg, failAt)
      pre == <<"create_embeddings", "create_llm", "create_text_splitter",
               "create_reranker">>
  IN IF e1 # "none" THEN fail(e1, <<>>)
     ELSE IF e2 # "none" THEN fail(e2, SubSeq(pre, 1, 1))
     ELSE IF e3 # "none" THEN fail(e3, SubSeq(pre, 1, 2))
     ELSE IF rr.err # "none" THEN fail(rr.err, SubSeq(pre, 1, 3))
     ELSE IF br.err # "none"
     THEN [err |-> br.err, disk |-> br.disk, calls |-> br.calls,
           rag_chain |-> chain, docs |-> br.docs, ops |-> pre \o br.ops]
     ELSE IF ch.err # "none"
     THEN [err |-> ch.err, disk |-> br.disk, calls |-> br.calls,
           rag_chain |-> chain, docs |-> br.docs, ops |-> pre \o br.ops]
     ELSE [err |-> "none", disk |-> br.disk, calls |-> br.calls,
           rag_chain |-> ch.chain, docs |-> br.docs,
           ops |-> pre \o br.ops \o <<"build_rag_chain">>]

\* setup(): components first, then build_retriever, then the chain; the
\* chain is assigned to self.rag_chain only as the last step.
setup(cfg, e, d, calls, chain, force_recreate, failAt) ==
  LET fail(err, ops) ==
        [err |-> err, disk |-> d, calls |-> calls, rag_chain |-> chain,
         docs |-> -1, ops |-> ops]
      e1 == create_embeddings(cfg, failAt)
      e2 == create_llm(cfg, failAt)
      e3 == create_text_splitter(cfg, failAt)
      rr == create_reranker(cfg, e, failAt)
      br == build_retriever(cfg, e, d, calls, rr.reranker, force_recreate, failAt)
      ch == build_rag_chain(br.retriever, cfg, failAt)
      pre == <<"create_embeddings", "create_llm", "create_text_splitter",
               "create_reranker">>
  IN IF e1 # "none" THEN fail(e1, <<>>)
     ELSE IF e2 # "none" THEN fail(e2, SubSeq(pre, 1, 1))
     ELSE IF e3 # "none" THEN fail(e3, SubSeq(pre, 1, 2))
     ELSE IF rr.err # "none" THEN fail(rr.err, SubSeq(pre, 1, 3))
     ELSE IF br.err # "none"
     THEN [err |-> br.err, disk |-> br.disk, calls |-> br.calls,
           rag_chain |-> chain, docs |-> br.docs, ops |-> pre \o br.ops]
     ELSE IF ch.err # "none"
     THEN [err |-> ch.err, disk |-> br.disk, calls |-> br.calls,
           rag_chain |-> chain, docs |-> br.docs, ops |-> pre \o br.ops]
     ELSE [err |-> "none", disk |-> br.disk, calls |-> br.calls,
           rag_chain |-> ch.chain, docs |-> br.docs,
           ops |-> pre \o br.ops \o <<"build_rag_chain">>]

\* RunnableWithMessageHistory looks the session up before the chain runs:
\* get_session_history creates an empty history on first reference
get_session_history(st, sid) ==
  IF sid \notin DOMAIN st
  THEN [s \in DOMAIN st \cup {sid} |-> IF s = sid THEN <<>> ELSE st[s]]
  ELSE st

HumanMessage(q) == [role |-> "human", content |-> q]
AIMessage(a) == [role |-> "ai", content |-> <<a>>]
SystemMessage == [role |-> "system", content |-> <<"chat_template">>]

\* Variant: the question is rewritten with the history before retrieval
ConversationalQuery_WithHistory(x) ==
  [type |-> "str",
   text |-> IF x.chat_history = <<>> THEN x.question
            ELSE x.chat_history[Len(x.chat_history) - 1].content \o x.question]

\* line 83: the conversational chain retrieves with x["question"]
ConversationalQuery(x) == [type |-> "str", text |-> x.question]

\* line 49: the standard chain hands its whole input mapping to the retriever
StandardQuery(x) == [type |-> "dict", text |-> x.question]

\* The retriever is a function of the retriever object and the query
Retrieve(retriever, query) == [retriever |-> retriever, query |-> query]

\* lines 73-79: system template, history placeholder, human question
ChatPrompt(x) == <<SystemMessage>> \o x.chat_history \o <<HumanMessage(x.question)>>

\* Variant: the answer is stored before the question
ExitHistory_Reversed(hist, q, a) == hist \o <<AIMessage(a), HumanMessage(q)>>

\* on_end listener of the wrapped chain: the input message (key "question")
\* and the output message (key "output") are appended together
ExitHistory(hist, q, a) == hist \o <<HumanMessage(q), AIMessage(a)>>

NoQuery == [type |-> None, text |-> <<>>]
NoDocs == [retriever |-> NoRetriever, query |-> NoQuery]

\* Variant: the question is written to the history before the chain runs
conversational_turn_EagerAppend(st, chain, q, sid, failAt, a) ==
  LET st0   == get_session_history(st, sid)
      x     == [question |-> q, chat_history |-> st0[sid]]
      st1   == [st0 EXCEPT ![sid] = Append(st0[sid], HumanMessage(q))]
      query == ConversationalQuery(x)
      docs  == Retrieve(chain.retriever, query)
      prompt == ChatPrompt(x)
  IN IF failAt = "retrieve"
     THEN [err |-> "PipelineError", store |-> st1, query |-> query,
           docs |-> NoDocs, prompt |-> <<>>, output |-> None,
           ops |-> <<"get_session_history", "retrieve">>]
     ELSE IF failAt = "llm"
     THEN [err |-> "PipelineError", store |-> st1, query |-> query,
           docs |-> docs, prompt |-> prompt, output |-> None,
           ops |-> <<"get_session_history", "retrieve", "llm">>]
     ELSE [err |-> "none",
           store |-> [st1 EXCEPT ![sid] = Append(st1[sid], AIMessage(a))],
           query |-> query, docs |-> docs, prompt |-> prompt, output |-> a,
           ops |-> <<"get_session_history", "retrieve", "llm", "add_messages">>]

\* One turn through the chain built by _build_conversational_chain, wrapped
\* in RunnableWithMessageHistory.  A step that raises ends the turn; the
\* history is written only by the on_end listener.
conversational_turn(st, chain, q, sid, failAt, a) ==
  LET st1   == get_session_history(st, sid)
      x     == [question |-> q, chat_history |-> st1[sid]]
      query == ConversationalQuery(x)
      docs  == Retrieve(chain.retriever, query)
      prompt == ChatPrompt(x)
  IN IF failAt = "retrieve"
     THEN [err |-> "PipelineError", store |-> st1, query |-> query,
           docs |-> NoDocs, prompt |-> <<>>, output |-> None,
           ops |-> <<"get_session_history", "retrieve">>]
     ELSE IF failAt = "llm"
     THEN [err |-> "PipelineError", store |-> st1, query |-> query,
           docs |-> docs, prompt |-> prompt, output |-> None,
           ops |-> <<"get_session_history", "retrieve", "llm">>]
     ELSE [err |-> "none",
           store |-> [st1 EXCEPT ![sid] = ExitHistory(st1[sid], q, a)],
           query |-> query, docs |-> docs, prompt |-> prompt, output |-> a,
           ops |-> <<"get_session_history", "retrieve", "llm", "add_messages">>]

\* One turn through the chain built by _build_standard_chain
standard_turn(st, chain, q, failAt, a) ==
  LET x     == [question |-> q]
      query == StandardQuery(x)
      docs  == Retrieve(chain.retriever, query)
  IN IF failAt = "retrieve"
     THEN [err |-> "PipelineError", store |-> st, query |-> query,
           docs |-> NoDocs, prompt |-> <<>>, output |-> None,
           ops |-> <<"retrieve">>]
     ELSE IF failAt = "llm"
     THEN [err |-> "PipelineError", store |-> st, query |-> query,
           docs |-> docs, prompt |-> <<HumanMessage(q)>>, output |-> None,
           ops |-> <<"retrieve", "llm">>]
     ELSE [err |-> "none", store |-> st, query |-> query, docs |-> docs,
           prompt |-> <<HumanMessage(q)>>, output |-> a,
           ops |-> <<"retrieve", "llm">>]

\* Variant: the chain is used without checking that setup() built it
ask_NoCheck(chain, cfg, st, q, sid, failAt, a) ==
  IF cfg.memory_enable
  THEN conversational_turn(st, chain, q, sid, failAt, a)
  ELSE standard_turn(st, chain, q, failAt, a)

\* RAGOrchestrator.ask
ask(chain, cfg, st, q, sid, failAt, a) ==
  IF chain = NoChain
  THEN [err |-> "NotInitialized", store |-> st, query |-> NoQuery,
        docs |-> NoDocs, prompt |-> <<>>, output |-> None, ops |-> <<>>]
  ELSE IF cfg.memory_enable
  THEN conversational_turn(st, chain, q, sid, failAt, a)
  ELSE standard_turn(st, chain, q, failAt, a)

\* ------------------------------------------------------------------ Init
Configs ==
  [provider : Providers, enable_hybrid_search : BOOLEAN,
   reranker_enable : BOOLEAN, memory_enable : BOOLEAN,
   doc_path : {None, "docs"}, doc_urls : {0, 1}]

\* The document directory holds files only if it exists
Envs ==
  {e \in [cohere_key : BOOLEAN, doc_dir_exists : BOOLEAN, n_local : {0, 1}] :
     ~e.doc_dir_exists => e.n_local = 0}

\* The store path is absent, or holds an index saved by an earlier run
Disks == {NoIndex, [exists |-> TRUE, complete |-> TRUE, gen |-> 0]}

NoSetup ==
  [called |-> FALSE, force |-> FALSE, before |-> NoIndex, err |-> "none",
   ops |-> <<>>, callsBefore |-> 0, reranker |-> None, docs |-> -1]

NoAsk ==
  [called |-> FALSE, question |-> <<>>, session |-> None, err |-> "none",
   ops |-> <<>>, query |-> NoQuery, docs |-> NoDocs, prompt |-> <<>>,
   output |-> None, storeBefore |-> <<>>, initialised |-> FALSE,
   everSetup |-> FALSE, afterSetup |-> FALSE]

NoLoop == [n |-> 0, line |-> <<>>, did |-> None, errAt |-> 0, next |-> "loop"]

\* State after RAGOrchestrator(config) is constructed
StartState(cfgs, envs, disks) ==
  /\ config \in cfgs
  /\ env \in envs
  /\ disk \in disks
  /\ embedCalls = 0
  /\ rag_chain = NoChain
  /\ store = <<>>
  /\ setups = 0
  /\ everSetup = FALSE
  /\ lastSetup = NoSetup
  /\ lastAsk = NoAsk
  /\ turnLog = <<>>
  /\ retrLog = {}
  /\ pc = "start"
  /\ lastLoop = NoLoop

Init == StartState(Configs, Envs, Disks)

\* --------------------------------------------------------------- actions
\* Effect of one setup() call on the state
DoSetup(force_recreate, failAt) ==
  LET r == setup(config, env, disk, embedCalls, rag_chain, force_recreate, failAt)
  IN /\ disk' = r.disk
     /\ embedCalls' = r.calls
     /\ rag_chain' = r.rag_chain
     /\ setups' = setups + 1
     /\ everSetup' = (everSetup \/ r.err = "none")
     /\ retrLog' = IF r.err = "none" THEN {} ELSE retrLog
     /\ lastSetup' = [called |-> TRUE, force |-> force_recreate,
                      before |-> disk, err |-> r.err, ops |-> r.ops,
                      callsBefore |-> embedCalls,
                      reranker |-> create_reranker(config, env, failAt).reranker,
                      docs |-> r.docs]

\* Effect of one ask() call on the state
DoAsk(q, sid, failAt, a) ==
  LET r == ask(rag_chain, config, store, q, sid, failAt, a)
      conv == rag_chain # NoChain /\ config.memory_enable
  IN /\ store' = r.store
     /\ lastAsk' = [called |-> TRUE, question |-> q, session |-> sid,
                    err |-> r.err, ops |-> r.ops, query |-> r.query,
                    docs |-> r.docs, prompt |-> r.prompt, output |-> r.output,
                    storeBefore |-> store, initialised |-> rag_chain # NoChain,
                    everSetup |-> everSetup, afterSetup |-> setups > 0]
     /\ turnLog' = IF conv /\ r.err = "none"
                   THEN Append(turnLog, [session |-> sid, question |-> q,
                                         answer |-> a])
                   ELSE turnLog
     /\ retrLog' = IF /\ conv /\ r.docs # NoDocs
                      /\ \A x \in retrLog : x.question # q
                   THEN retrLog \cup {[question |-> q,
                                       turns |-> Len(r.prompt) \div 2,
                                       query |-> r.query, docs |-> r.docs]}
                   ELSE retrLog

\* A caller of the library calls orchestrator.setup(force_recreate)
Setup(force_recreate, failAt) ==
  /\ setups < MaxSetups
  /\ DoSetup(force_recreate, failAt)
  /\ UNCHANGED <<config, env, store, lastAsk, turnLog, pc, lastLoop>>

\* A caller of the library calls orchestrator.ask(question, session_id)
Ask(q, sid, failAt, a) ==
  /\ Len(turnLog) < MaxTurns
  /\ DoAsk(q, sid, failAt, a)
  /\ UNCHANGED <<config, env, disk, embedCalls, rag_chain, setups, everSetup,
                 lastSetup, pc, lastLoop>>

\* Specification of setup(): any configuration, environment and store state
Next == \E f \in BOOLEAN, p \in FailPoints : Setup(f, p)

Spec == Init /\ [][Next]_vars

\* Specification of setup() and ask() through the library interface, with
\* documents available, the optional stages off and no forced rebuild
ChatConfigs ==
  {c \in Configs : /\ c.provider = "google" /\ ~c.enable_hybrid_search
                   /\ ~c.reranker_enable
                   /\ c.doc_path = "docs" /\ c.doc_urls = 0}

ChatEnvs == {e \in Envs : e.cohere_key /\ e.n_local = 1}

ChatInit == StartState(ChatConfigs, ChatEnvs, Disks)

\* Failures of setup() that differ in what they leave behind
ChatFailPoints == {"none", "create_llm", "read_template"}

ChatNext ==
  \/ \E p \in ChatFailPoints : Setup(FALSE, p)
  \/ \E q \in Questions, s \in SessionIds, p \in TurnFailPoints, a \in Answers :
       Ask(q, s, p, a)

ChatSpec == ChatInit /\ [][ChatNext]_vars

\* ---------------------------------------------------------------- main()
\* main(): load the configuration, construct the orchestrator, call
\* setup(force_recreate=args.setup); any exception ends the program
MainStart(force_recreate, failAt) ==
  /\ pc = "start"
  /\ DoSetup(force_recreate, failAt)
  /\ pc' = IF setup(config, env, disk, embedCalls, rag_chain,
                    force_recreate, failAt).err = "none"
           THEN "loop" ELSE "done"
  /\ UNCHANGED <<config, env, store, lastAsk, turnLog, lastLoop>>

\* Variant: exit and quit are compared without lower()
LineAction_NoLower(line) ==
  IF line \in {EXIT, QUIT} THEN "terminate"
  ELSE IF strip(line) = <<>> THEN "ignore"
  ELSE "ask"

\* lines 72-76: what the loop does with a line before asking
LineAction(line) ==
  IF lower(line) \in {EXIT, QUIT} THEN "terminate"
  ELSE IF strip(line) = <<>> THEN "ignore"
  ELSE "ask"

\* One iteration of the while loop on a line read by input()
MainLine(line, failAt, a) ==
  /\ pc = "loop"
  /\ lastLoop.n < MaxLines
  /\ LET act == LineAction(line)
         n   == lastLoop.n + 1
     IN
     CASE act = "terminate" ->
            /\ pc' = "done"
            /\ lastLoop' = [lastLoop EXCEPT !.n = n, !.line = line,
                                            !.did = "terminate",
                                            !.next = "done"]
            /\ UNCHANGED <<store, lastAsk, turnLog, retrLog>>
       [] act = "ignore" ->
            /\ pc' = "loop"
            /\ lastLoop' = [lastLoop EXCEPT !.n = n, !.line = line,
                                            !.did = "ignore", !.next = "loop"]
            /\ UNCHANGED <<store, lastAsk, turnLog, retrLog>>
       [] act = "ask" ->
            LET ok == ask(rag_chain, config, store, line, session_id,
                          failAt, a).err = "none"
            IN /\ DoAsk(line, session_id, failAt, a)
               /\ pc' = "loop"
               /\ lastLoop' = [n |-> n, line |-> line,
                               did |-> IF ok THEN "answered" ELSE "ask_error",
                               errAt |-> IF ok THEN lastLoop.errAt ELSE n,
                               next |-> "loop"]
  /\ UNCHANGED <<config, env, disk, embedCalls, rag_chain, setups, everSetup,
                 lastSetup>>

\* lines 98-101: Ctrl+C ends the loop
MainInterrupt ==
  /\ pc = "loop"
  /\ pc' = "done"
  /\ UNCHANGED <<config, env, disk, embedCalls, rag_chain, store, setups,
                 everSetup, lastSetup, lastAsk, turnLog, retrLog, lastLoop>>

\* The program under any document configuration, with the optional
\* retrieval stages off
MainConfigs ==
  {c \in Configs : /\ c.provider = "google" /\ ~c.enable_hybrid_search
                   /\ ~c.reranker_enable}

MainInit == StartState(MainConfigs, {e \in Envs : e.cohere_key}, Disks)

MainNext ==
  \/ \E f \in BOOLEAN, p \in FailPoints : MainStart(f, p)
  \/ \E l \in Lines, p \in TurnFailPoints, a \in Answers : MainLine(l, p, a)
  \/ MainInterrupt

MainSpec == MainInit /\ [][MainNext]_vars

\* ================================================================ claims
Ops == Range(lastSetup.ops)

\* build_retriever was entered: the four components were constructed
EnteredBuild == lastSetup.called /\ "create_reranker" \in Ops

\* The condition under which the claim says the index is rebuilt
RebuildCase == lastSetup.force \/ ~lastSetup.before.exists

BuildOps == {"load_documents", "DirectoryLoader", "WebBaseLoader",
             "split_documents", "from_documents", "save_local"}

\* C1: the index is rebuilt (old directory deleted if present, documents
\* loaded, split, embedded, new index persisted) exactly when force_recreate
\* is true or nothing is persisted at the path; otherwise the persisted index
\* is loaded and nothing is loaded, split or embedded.
C1_RebuildExactlyWhenForcedOrAbsent ==
  EnteredBuild =>
    /\ ("rmtree" \in Ops) <=> (lastSetup.force /\ lastSetup.before.exists)
    /\ ("load_documents" \in Ops) <=> RebuildCase
    /\ ~RebuildCase =>
         /\ Ops \cap BuildOps = {}
         /\ embedCalls = lastSetup.callsBefore
         /\ disk = lastSetup.before
         /\ lastSetup.err = "none" => "load_local" \in Ops
    /\ (RebuildCase /\ lastSetup.err = "none") =>
         /\ {"split_documents", "from_documents", "save_local"} \subseteq Ops
         /\ "load_local" \notin Ops
         /\ embedCalls = lastSetup.callsBefore + 1
         /\ disk = [exists |-> TRUE, complete |-> TRUE, gen |-> embedCalls]
         /\ disk # lastSetup.before

\* C1 witness: --setup on an existing index deleted it and re-embedded
C1_Witness ==
  /\ EnteredBuild /\ lastSetup.force /\ lastSetup.before.exists
  /\ lastSetup.err = "none" /\ "rmtree" \in Ops
  /\ embedCalls = lastSetup.callsBefore + 1

\* C2: after every successful setup, built or loaded, the base retriever is
\* the hybrid fusion retriever (with a keyword index) if and only if
\* retriever.enable_hybrid_search is true.
C2_HybridIffEnabled ==
  (lastSetup.called /\ lastSetup.err = "none") =>
    /\ (rag_chain.retriever.base.kind = "ensemble") <=> config.enable_hybrid_search
    /\ rag_chain.retriever.base.bm25 <=> config.enable_hybrid_search

\* C8: the reranker is constructed only if reranker.enable; enabled without
\* the credential, setup fails with MissingCredentialError; disabled, the
\* retriever of the pipeline is the base retriever without a wrapper.
C8_RerankerOnlyWhenEnabled ==
  lastSetup.called =>
    /\ lastSetup.reranker # None => config.reranker_enable
    /\ (config.reranker_enable /\ ~env.cohere_key
          /\ "create_text_splitter" \in Ops) =>
         /\ lastSetup.err = "MissingCredential"
         /\ rag_chain = NoChain
    /\ (lastSetup.err = "none" /\ ~config.reranker_enable) =>
         /\ rag_chain.retriever.compressor = None
         /\ rag_chain.retriever.base.kind \in {"faiss", "ensemble"}
    /\ (lastSetup.err = "none" /\ config.reranker_enable) =>
         rag_chain.retriever.compressor = "CohereRerank"

\* C8 witness: reranking enabled, credential absent, setup failed on it
C8_Witness ==
  /\ lastSetup.called /\ config.reranker_enable /\ ~env.cohere_key
  /\ lastSetup.err = "MissingCredential"

\* C10: a setup() that fails while constructing the embedding provider, the
\* LLM, the splitter or the reranker leaves the persisted index unchanged,
\* also under force_recreate.
C10_ComponentFailureKeepsIndex ==
  (lastSetup.called /\ "create_reranker" \notin Ops) =>
    /\ lastSetup.err # "none"
    /\ disk = lastSetup.before
    /\ embedCalls = lastSetup.callsBefore

\* C10 witness: --setup on an existing index failed in component construction
C10_Witness ==
  /\ lastSetup.called /\ "create_reranker" \notin Ops
  /\ lastSetup.force /\ lastSetup.before.exists /\ disk.exists

\* C7: when an index has to be built and loading yields zero documents,
\* setup fails with NoDocumentsFoundError before splitting, embedding or
\* persisting, and main returns without entering the question loop.
C7_NoDocumentsStopsBeforeLoop ==
  (lastSetup.called /\ lastSetup.docs = 0) =>
    /\ lastSetup.err = "NoDocumentsFound"
    /\ Ops \cap {"split_documents", "from_documents", "save_local"} = {}
    /\ embedCalls = lastSetup.callsBefore
    /\ ~disk.exists
    /\ rag_chain = NoChain
    /\ pc = "done"
    /\ lastLoop = NoLoop
    /\ ~lastAsk.called

\* C7 witness: a forced rebuild found no documents and the program ended
C7_Witness ==
  /\ lastSetup.called /\ lastSetup.docs = 0 /\ lastSetup.force
  /\ lastSetup.before.exists /\ pc = "done"

\* Messages of a session; a session never referenced has none
Messages(st, s) == IF s \in DOMAIN st THEN st[s] ELSE <<>>

\* The messages that the successful turns of log put into session s
RECURSIVE History(_, _)
History(log, s) ==
  IF log = <<>> THEN <<>>
  ELSE (IF Head(log).session = s
        THEN << [role |-> "human", content |-> Head(log).question],
                [role |-> "ai", content |-> <<Head(log).answer>>] >>
        ELSE <<>>) \o History(Tail(log), s)

Front(q) == SubSeq(q, 1, Len(q) - 1)

Conversational(a) == a.called /\ a.initialised /\ config.memory_enable

\* C3: a turn that fails in retrieval or in the LLM call leaves the messages
\* of every session as they were; the histories hold the messages of the
\* successful turns only.
C3_FailedTurnKeepsHistory ==
  /\ (Conversational(lastAsk) /\ lastAsk.err = "PipelineError") =>
       \A s \in SessionIds :
         Messages(store, s) = Messages(lastAsk.storeBefore, s)
  /\ config.memory_enable =>
       \A s \in SessionIds : Messages(store, s) = History(turnLog, s)

\* C3 witness: a turn failed on a session that already had messages
C3_Witness ==
  /\ Conversational(lastAsk) /\ lastAsk.err = "PipelineError"
  /\ Messages(store, lastAsk.session) # <<>>

C5_RetrievalIgnoresHistory ==
  (Conversational(lastAsk) /\ "retrieve" \in Range(lastAsk.ops)) =>
    /\ lastAsk.query = [type |-> "str", text |-> lastAsk.question]
    /\ lastAsk.docs # NoDocs =>
         \A x \in retrLog :
           x.question = lastAsk.question =>
             (x.query = lastAsk.query /\ x.docs = lastAsk.docs)

\* C5 witness: one question retrieved under two different histories
C5_Witness ==
  /\ Conversational(lastAsk) /\ lastAsk.docs # NoDocs
  /\ \E x \in retrLog :
       /\ x.question = lastAsk.question
       /\ x.turns # Len(lastAsk.prompt) \div 2

\* C6: ask() fails with NotInitializedError, with no retrieval, no LLM call
\* and no change to any history, whenever no setup() has completed,
\* including after a setup() that raised.
C6_AskBeforeSetupFails ==
  (lastAsk.called /\ ~lastAsk.everSetup) =>
    /\ lastAsk.err = "NotInitialized"
    /\ lastAsk.ops = <<>>
    /\ store = lastAsk.storeBefore
    /\ lastAsk.output = None

\* C6 witness: ask() after a setup() call that raised
C6_Witness ==
  /\ lastAsk.called /\ ~lastAsk.everSetup /\ lastAsk.afterSetup
  /\ lastAsk.err = "NotInitialized"

Asked == lastLoop.did \in {"answered", "ask_error"}

\* C9 as stated: an empty line is ignored, exit/quit in any case terminates,
\* every other non-empty line is passed to ask, and a failed turn leaves the
\* loop running.
C9_EveryNonEmptyLineAsked ==
  lastLoop.n > 0 =>
    LET l == lastLoop.line IN
    /\ l = <<>> => lastLoop.did = "ignore"
    /\ lower(l) \in {EXIT, QUIT} =>
         (lastLoop.did = "terminate" /\ lastLoop.next = "done")
    /\ (l # <<>> /\ lower(l) \notin {EXIT, QUIT}) => Asked
    /\ Asked => lastLoop.next = "loop"

IsBlank(l) == \A i \in 1..Len(l) : l[i] \in Whitespace

\* C9 amended: a line that is empty or only whitespace is ignored,
\* exit/quit in any case terminates, every other line is passed to ask with
\* session "user_cli_session", and a failed turn leaves the loop running.
C9_NonBlankLineAsked ==
  lastLoop.n > 0 =>
    LET l == lastLoop.line IN
    /\ IsBlank(l) => (lastLoop.did = "ignore" /\ lastLoop.next = "loop")
    /\ lower(l) \in {EXIT, QUIT} =>
         (lastLoop.did = "terminate" /\ lastLoop.next = "done" /\ pc = "done")
    /\ (~IsBlank(l) /\ lower(l) \notin {EXIT, QUIT}) =>
         (Asked /\ lastAsk.question = l /\ lastAsk.session = session_id)
    /\ Asked => lastLoop.next = "loop"
    /\ lastLoop.did = "ask_error" => lastAsk.err # "none"

\* C9 witness: the second question failed and the third was answered
C9_Witness ==
  /\ lastLoop.n = 3 /\ lastLoop.errAt = 2 /\ lastLoop.did = "answered"
  /\ pc = "loop"

====
